---- MODULE Spec2Model ----
(***************************************************************************)
(* The four batch jobs of maescraper3: the current-snapshot loader         *)
(* (src/unnamed/part_000), the legacy loader (src/maescraper.go 1-257),    *)
(* the cross-database sync (src/maescraper.go 259-407) and the historical  *)
(* backfill (src/maescraper.go 409-703).                                   *)
(*                                                                         *)
(* Strings the code takes apart or builds (ticker, moneda, segmento,       *)
(* plazo, instrumento) are sequences of one-character strings.  A time     *)
(* value is a day number; time.Time{} is ZeroTime and the SQL literal      *)
(* '1900-01-01' is Sentinel1900, both below every date a quote carries.    *)
(* A nullable value is a sequence of length at most one: <<>> is NULL/nil. *)
(***************************************************************************)
EXTENDS Integers, Sequences, FiniteSets, TLC

\* ------------------------------------------------------------------ bounds
MaxDate == 5
MaxBatch == 3
MaxDetails == 2
MaxRunBatch == 2

\* ------------------------------------------------------- program constants
ZeroTime == 0
Sentinel1900 == 1

\* The dates a quote of the API may carry, and the dates of stored rows.
Dates == (Sentinel1900 + 3)..MaxDate
StoredDates == (Sentinel1900 + 2)..MaxDate
Runs == {"r1", "r2"}
Jobs == {"current", "legacy", "historico", "sync"}

\* --------------------------------------------------------------- strings
DollarT == <<"$", "T">>
ART == <<"A", "R", "T">>
Minorista == <<"M", "i", "n", "o", "r", "i", "s", "t", "a">>
Mayorista == <<"M", "a", "y", "o", "r", "i", "s", "t", "a">>
CAM1 == <<"C", "A", "M", "1">>
CAM2 == <<"C", "A", "M", "2">>

HasSuffix(s, suffix) ==
  /\ Len(s) >= Len(suffix)
  /\ SubSeq(s, Len(s) - Len(suffix) + 1, Len(s)) = suffix

\* strings.TrimSuffix: s without the trailing suffix, once; s when it has none.
TrimSuffix(s, suffix) ==
  IF HasSuffix(s, suffix) THEN SubSeq(s, 1, Len(s) - Len(suffix)) ELSE s

DigitVal ==
  ("0" :> 0) @@ ("1" :> 1) @@ ("2" :> 2) @@ ("3" :> 3) @@ ("4" :> 4) @@
  ("5" :> 5) @@ ("6" :> 6) @@ ("7" :> 7) @@ ("8" :> 8) @@ ("9" :> 9)

RECURSIVE DigitsValue(_)
DigitsValue(s) ==
  IF s = <<>> THEN 0
  ELSE 10 * DigitsValue(SubSeq(s, 1, Len(s) - 1)) + DigitVal[s[Len(s)]]

\* strconv.Atoi: an optional sign, then one or more decimal digits.
Atoi(s) ==
  LET signed == s # <<>> /\ s[1] \in {"+", "-"}
      digits == IF signed THEN Tail(s) ELSE s
      ok == digits # <<>> /\ \A i \in 1..Len(digits) : digits[i] \in DOMAIN DigitVal
  IN  IF ~ok THEN [ok |-> FALSE, n |-> 0]
      ELSE [ok |-> TRUE,
            n |-> IF signed /\ s[1] = "-" THEN 0 - DigitsValue(digits)
                  ELSE DigitsValue(digits)]

\* ------------------------------------------------------------ time texts
\* The text of a time: the layout it is written in and the day it names.
LayoutISO == "2006-01-02T15:04:05"
LayoutYMD == "2006-01-02"
LayoutYYMMDD == "060102"

TimeText(layout, day) == [layout |-> layout, day |-> day]
EmptyText == TimeText("", ZeroTime)
GarbageText == TimeText("garbage", ZeroTime)
\* "0001-01-01T00:00:00", the API's "no settlement date".
SentinelText == TimeText(LayoutISO, ZeroTime)

\* time.Parse(layout, text): fails unless the text is written in the layout.
ParseTime(layout, text) ==
  IF text.layout = layout THEN [ok |-> TRUE, t |-> text.day]
  ELSE [ok |-> FALSE, t |-> ZeroTime]

\* t.Format(layout)
FormatTime(layout, t) == TimeText(layout, t)

\* time.Time.IsZero / After / Before / AddDate(0, 0, n)
IsZero(t) == t = ZeroTime
After(t, u) == t > u
Before(t, u) == t < u
AddDays(t, n) == t + n

\* ------------------------------------------------------ field derivation
deriveCurrencyOutDropsAll(ticker) ==
  IF HasSuffix(ticker, DollarT)
  THEN TrimSuffix(TrimSuffix(ticker, DollarT), DollarT)
  ELSE ticker

deriveCurrencyOut(ticker) == TrimSuffix(ticker, DollarT)

deriveCurrencyIn(moneda) == IF moneda = <<"T">> THEN ART ELSE moneda

deriveRueda(segmento) ==
  CASE segmento = Minorista -> CAM2
    [] segmento = Mayorista -> CAM1
    [] OTHER -> segmento

\* fmt.Sprintf("%s / %s %s", currencyOut, currencyIn, plazo)
buildInstrumento(currencyOut, currencyIn, plazo) ==
  currencyOut \o <<" ", "/", " ">> \o currencyIn \o <<" ">> \o plazo

\* var settleVal *int: set only when plazo is not empty and Atoi succeeds.
SettleOf(plazo) ==
  IF plazo # <<>> /\ Atoi(plazo).ok THEN <<Atoi(plazo).n>> ELSE <<>>

SettleDateOfKeepsSentinel(fechaLiquidacion) ==
  IF /\ fechaLiquidacion # EmptyText
     /\ ParseTime(LayoutISO, fechaLiquidacion).ok
  THEN <<ParseTime(LayoutISO, fechaLiquidacion).t>>
  ELSE <<>>

\* var settleDateVal *time.Time: set only when fechaLiquidacion is neither
\* empty nor the sentinel, and parses.
SettleDateOf(fechaLiquidacion) ==
  IF /\ fechaLiquidacion # EmptyText
     /\ fechaLiquidacion # SentinelText
     /\ ParseTime(LayoutISO, fechaLiquidacion).ok
  THEN <<ParseTime(LayoutISO, fechaLiquidacion).t>>
  ELSE <<>>

\* ------------------------------------------------------------ SQL binding
Range(s) == {s[i] : i \in 1..Len(s)}
Last(s) == s[Len(s)]

\* A statement's positional parameters $1..$n bound to its column list.
BindRow(cols, args) ==
  [c \in Range(cols) |-> args[CHOOSE i \in 1..Len(cols) : cols[i] = c]]

\* The column list of the INSERT of the current-snapshot job, and of the
\* sync's SELECT and INSERT.
ForexCols ==
  <<"date", "rueda", "instrumento", "currency_out", "currency_in", "settle",
    "settle_date", "monto", "cotizacion", "hora", "descripcion",
    "tipo_emision", "codigo_segmento", "codigo_plazo", "moneda",
    "monto_acumulado", "precio_ultimo", "ultima_tasa",
    "precio_cierre_anterior", "precio_minimo", "precio_maximo",
    "open_interest", "variacion">>

\* The column list of the backfill's INSERT: monto_acumulado comes last.
HistoricoCols ==
  <<"date", "rueda", "instrumento", "currency_out", "currency_in", "settle",
    "settle_date", "monto", "cotizacion", "hora", "descripcion",
    "tipo_emision", "codigo_segmento", "codigo_plazo", "moneda",
    "precio_ultimo", "ultima_tasa", "precio_cierre_anterior",
    "precio_minimo", "precio_maximo", "open_interest", "variacion",
    "monto_acumulado">>

\* The column list of the legacy INSERT into forex3.
LegacyCols ==
  <<"date", "rueda", "instrumento", "currency_out", "currency_in", "settle",
    "settle_date", "monto", "cotizacion", "hora">>

\* conn.Exec arguments of the current-snapshot job for record d.
CurrentArgs(d, fecha) ==
  LET currencyOut == deriveCurrencyOut(d.Ticker)
      currencyIn == deriveCurrencyIn(d.Moneda)
      rueda == deriveRueda(d.Segmento)
      instrumento == buildInstrumento(currencyOut, currencyIn, d.Plazo)
  IN  <<fecha, rueda, instrumento, currencyOut, currencyIn,
        SettleOf(d.Plazo), SettleDateOf(d.FechaLiquidacion),
        d.VolumenAcumulado, d.PrecioCierre, <<>>,
        d.Descripcion, d.TipoEmision, d.CodigoSegmento, d.CodigoPlazo,
        d.Moneda, d.MontoAcumulado, d.PrecioUltimo, d.UltimaTasa,
        d.PrecioCierreAnterior, d.PrecioMinimo, d.PrecioMaximo,
        d.OpenInterest, d.Variacion>>

CurrentRow(d, fecha) == BindRow(ForexCols, CurrentArgs(d, fecha))

\* conn.Exec arguments of the backfill for detail d.
HistoricoArgs(d, fecha) ==
  LET currencyOut == deriveCurrencyOut(d.Ticker)
      currencyIn == deriveCurrencyIn(d.Moneda)
      rueda == deriveRueda(d.Segmento)
      instrumento == buildInstrumento(currencyOut, currencyIn, d.Plazo)
  IN  <<fecha, rueda, instrumento, currencyOut, currencyIn,
        SettleOf(d.Plazo), SettleDateOf(d.FechaLiquidacion),
        d.Volumen, d.PrecioCierre, <<>>,
        d.Descripcion, d.TipoEmision, d.CodigoSegmento, d.CodigoPlazo,
        d.Moneda, d.Ultimo, d.UltimaTasa, d.CierreAnterior, d.Minimo,
        d.Maximo, d.OpenInterest, d.Variacion, d.Monto>>

HistoricoRow(d, fecha) == BindRow(HistoricoCols, HistoricoArgs(d, fecha))

\* ------------------------------------------------------------ API records
\* The fields of an API record the jobs only pass through.
CurrentPassthrough ==
  [Descripcion |-> "descripcion", TipoEmision |-> "tipoEmision",
   CodigoSegmento |-> "codigoSegmento", CodigoPlazo |-> "codigoPlazo",
   VolumenAcumulado |-> "volumenAcumulado",
   MontoAcumulado |-> "montoAcumulado", PrecioUltimo |-> "precioUltimo",
   UltimaTasa |-> "ultimaTasa",
   PrecioCierreAnterior |-> "precioCierreAnterior",
   PrecioMinimo |-> "precioMinimo", PrecioMaximo |-> "precioMaximo",
   OpenInterest |-> "openInterest", PrecioCierre |-> "precioCierre",
   Variacion |-> "variacion"]

HistoricoPassthrough ==
  [Descripcion |-> "descripcion", TipoEmision |-> "tipoEmision",
   CodigoSegmento |-> "codigoSegmento", CodigoPlazo |-> "codigoPlazo",
   Volumen |-> "volumen", Monto |-> "monto", Minimo |-> "minimo",
   Maximo |-> "maximo", Ultimo |-> "ultimo", Variacion |-> "variacion",
   PrecioCierre |-> "precioCierre", UltimaTasa |-> "ultimaTasa",
   CierreAnterior |-> "cierreAnterior", OpenInterest |-> "openInterest"]

\* The fields the jobs derive from, as the API may send them.
Tickers == {<<"U", "$", "T">>, <<"U", "M">>, <<"U", "$", "T", "$", "T">>, DollarT}
Monedas == {<<"T">>, <<"D">>}
Segmentos == {Minorista, Mayorista, <<"X">>}
Plazos == {<<"0", "0", "0">>, <<>>, <<"1", "x">>, <<"-", "1">>}
FechasLiquidacion ==
  {TimeText(LayoutISO, Sentinel1900 + 2), SentinelText, EmptyText, GarbageText}

Derivables ==
  [Ticker : Tickers, Moneda : Monedas, Segmento : Segmentos, Plazo : Plazos,
   FechaLiquidacion : FechasLiquidacion]

\* One choice of those fields per date, so that a batch is told by its dates.
DerivablesOn(day) ==
  CASE day % 4 = 0 ->
         [Ticker |-> <<"U", "$", "T">>, Moneda |-> <<"T">>,
          Segmento |-> Minorista, Plazo |-> <<"0", "0", "0">>,
          FechaLiquidacion |-> TimeText(LayoutISO, day)]
    [] day % 4 = 1 ->
         [Ticker |-> <<"U", "M">>, Moneda |-> <<"D">>, Segmento |-> Mayorista,
          Plazo |-> <<>>, FechaLiquidacion |-> SentinelText]
    [] day % 4 = 2 ->
         [Ticker |-> <<"U", "$", "T", "$", "T">>, Moneda |-> <<"T">>,
          Segmento |-> <<"X">>, Plazo |-> <<"1", "x">>,
          FechaLiquidacion |-> GarbageText]
    [] OTHER ->
         [Ticker |-> DollarT, Moneda |-> <<"D">>, Segmento |-> Minorista,
          Plazo |-> <<"-", "1">>, FechaLiquidacion |-> EmptyText]

\* The fecha texts an API record may carry: a date, or text that is none.
Fechas == {TimeText(LayoutISO, d) : d \in Dates} \cup {GarbageText}

CurrentRecord(fecha, drv) == [Fecha |-> fecha] @@ drv @@ CurrentPassthrough
HistoricoRecord(fecha, drv) == [Fecha |-> fecha] @@ drv @@ HistoricoPassthrough

CurrentRecords == {CurrentRecord(f, DerivablesOn(f.day)) : f \in Fechas}
HistoricoRecords == {HistoricoRecord(f, DerivablesOn(f.day)) : f \in Fechas}

\* Sequences of elements of S of length lo..hi.
SeqsOf(S, lo, hi) == UNION {[1..n -> S] : n \in lo..hi}

\* ------------------------------------------------------------------ state
VARIABLES
  job,     \* which of the four programs the runs execute
  today,   \* time.Now().Truncate(24 * time.Hour)
  api,     \* what the job's endpoint answers when the fetch succeeds
  local,   \* the sync's source table (local public.forex)
  table,   \* the destination table, in insertion order
  table0,  \* the destination table before the first run (history)
  run      \* each run's position, locals and connections

vars == <<job, today, api, local, table, table0, run>>

\* A process before main: nothing fetched, no connection, time.Time{}.
NewRun ==
  [pc |-> "start",
   fetch |-> "none",       \* none | failed | empty | ok
   fetchCalls |-> 0,       \* requests sent to the endpoint
   request |-> <<>>,       \* the backfill's <<fechaDesde, fechaHasta>>
   data |-> <<>>,          \* the fetched batch
   open |-> {},            \* connections open now
   opened |-> {},          \* connections ever opened
   queries |-> 0,          \* SELECTs run
   lastDate |-> ZeroTime,
   lastRead |-> "none",    \* none | ok | null | err
   prepared |-> FALSE,
   pending |-> <<>>,       \* rowsToInsert (legacy), the result set (sync)
   idx |-> 1,              \* the loop's position
   inserted |-> 0,
   skipped |-> 0,
   attempts |-> <<>>,      \* every conn.Exec of the insert (history)
   scanErrs |-> 0,         \* rows.Scan failures (sync)
   iterErr |-> FALSE]      \* rows.Err() # nil (sync)

Idle == [NewRun EXCEPT !.pc = "off"]

\* SELECT MAX(date): NULL (<<>>) over no rows.
MaxOf(S) == CHOOSE m \in S : \A x \in S : x <= m
TableMax(t) == IF t = <<>> THEN <<>> ELSE <<MaxOf({t[i].date : i \in 1..Len(t)})>>

Attempt(i, ok, row) == [i |-> i, ok |-> ok, row |-> row]

\* conn.Exec of the INSERT, then if err != nil { log } else { inserted++ }:
\* a failure is logged and the loop goes on.  i is the record's position.
ExecInsertCountsFailures(r, i, ok, row) ==
  [r EXCEPT !.attempts = Append(@, Attempt(i, ok, row)),
            !.inserted = @ + 1,
            !.idx = @ + 1]

ExecInsert(r, i, ok, row) ==
  [r EXCEPT !.attempts = Append(@, Attempt(i, ok, row)),
            !.inserted = IF ok THEN @ + 1 ELSE @,
            !.idx = @ + 1]

\* defer conn.Close(), run by a return from the function that opened it.
CloseAll(r) == [r EXCEPT !.open = {}]

\* -------------------------------------------- current-snapshot job
\* What fetchForexData returns: nil (<<>>) on a request, status or decode
\* failure and on an empty array, else the decoded records.
CurrentFetchedDespiteError(ok, body) == body

CurrentFetched(ok, body) == IF ok THEN body ELSE <<>>

\* fetchForexData (log.Fatal without MAE_API_KEY), and main's
\* if forexData != nil { saveToDatabase(forexData) }.
CurrentFetch(p) ==
  /\ job = "current"
  /\ run[p].pc = "start"
  /\ \/ run' = [run EXCEPT ![p].pc = "exited"]
     \/ \E ok \in BOOLEAN :
          LET fetched == CurrentFetched(ok, api)
          IN  run' = [run EXCEPT ![p] =
                [@ EXCEPT !.pc = IF fetched # <<>> THEN "connect" ELSE "done",
                          !.fetch = IF ~ok THEN "failed"
                                    ELSE IF Len(api) = 0 THEN "empty" ELSE "ok",
                          !.fetchCalls = @ + 1,
                          !.data = fetched]]
  /\ UNCHANGED <<job, today, api, local, table, table0>>

\* pgx.Connect; log.Fatalf when it fails.
CurrentConnect(p) ==
  /\ job = "current"
  /\ run[p].pc = "connect"
  /\ \E ok \in BOOLEAN :
       run' = [run EXCEPT ![p] =
         IF ok
         THEN [@ EXCEPT !.pc = "query", !.open = @ \cup {"db"},
                        !.opened = @ \cup {"db"}]
         ELSE [@ EXCEPT !.pc = "exited"]]
  /\ UNCHANGED <<job, today, api, local, table, table0>>

ReadMaxDateDespiteError(r, ok) ==
  [r EXCEPT !.queries = @ + 1,
            !.lastDate = IF TableMax(table) # <<>> THEN TableMax(table)[1]
                         ELSE ZeroTime,
            !.lastRead = IF ~ok THEN "err"
                         ELSE IF TableMax(table) = <<>> THEN "null" ELSE "ok"]

ReadMaxDateOfStart(r, ok) ==
  [r EXCEPT !.queries = @ + 1,
            !.lastDate = IF ok /\ TableMax(table0) # <<>> THEN TableMax(table0)[1]
                         ELSE ZeroTime,
            !.lastRead = IF ~ok THEN "err"
                         ELSE IF TableMax(table0) = <<>> THEN "null" ELSE "ok"]

\* SELECT MAX(date) scanned into lastDate: a failed query and a NULL (which
\* does not scan into a time.Time) are logged and leave lastDate zero.
ReadMaxDate(r, ok) ==
  [r EXCEPT !.queries = @ + 1,
            !.lastDate = IF ok /\ TableMax(table) # <<>> THEN TableMax(table)[1]
                         ELSE ZeroTime,
            !.lastRead = IF ~ok THEN "err"
                         ELSE IF TableMax(table) = <<>> THEN "null" ELSE "ok"]

CurrentQueryLastDate(p) ==
  /\ job = "current"
  /\ run[p].pc = "query"
  /\ \E ok \in BOOLEAN :
       run' = [run EXCEPT ![p] = [ReadMaxDate(@, ok) EXCEPT !.pc = "prepare"]]
  /\ UNCHANGED <<job, today, api, local, table, table0>>

\* conn.Prepare; a failure is logged and saveToDatabase returns.
CurrentPrepare(p) ==
  /\ job = "current"
  /\ run[p].pc = "prepare"
  /\ \E ok \in BOOLEAN :
       run' = [run EXCEPT ![p] =
         IF ok THEN [@ EXCEPT !.pc = "loop", !.prepared = TRUE]
         ELSE [CloseAll(@) EXCEPT !.pc = "done"]]
  /\ UNCHANGED <<job, today, api, local, table, table0>>

\* if !lastDate.IsZero() && !fecha.After(lastDate) { skipped++; continue }
SkipStaleNotStrict(lastDate, fecha) == ~IsZero(lastDate) /\ Before(fecha, lastDate)

SkipStaleRereads(lastDate, fecha) ==
  TableMax(table) # <<>> /\ ~After(fecha, TableMax(table)[1])

SkipStale(lastDate, fecha) == ~IsZero(lastDate) /\ ~After(fecha, lastDate)

\* if err != nil { log.Printf("Invalid fecha ..."); continue }
FechaIgnoreError(d) == [ok |-> TRUE, t |-> ParseTime(LayoutISO, d.Fecha).t]

Fecha(d) == ParseTime(LayoutISO, d.Fecha)

\* One iteration of the loop over data.
CurrentProcess(p) ==
  /\ job = "current"
  /\ run[p].pc = "loop"
  /\ run[p].idx <= Len(run[p].data)
  /\ LET r == run[p]
         d == r.data[r.idx]
         fecha == Fecha(d)
     IN  IF ~fecha.ok
         THEN /\ run' = [run EXCEPT ![p].idx = @ + 1]
              /\ table' = table
         ELSE IF SkipStale(r.lastDate, fecha.t)
         THEN /\ run' = [run EXCEPT ![p].idx = @ + 1, ![p].skipped = @ + 1]
              /\ table' = table
         ELSE \E ok \in BOOLEAN :
                /\ run' = [run EXCEPT ![p] =
                             ExecInsert(@, r.idx, ok, CurrentRow(d, fecha.t))]
                /\ table' = IF ok THEN Append(table, CurrentRow(d, fecha.t))
                            ELSE table
  /\ UNCHANGED <<job, today, api, local, table0>>

\* The loop is over: the counters are printed, the deferred Close runs and
\* main ends.
CurrentFinish(p) ==
  /\ job = "current"
  /\ run[p].pc = "loop"
  /\ run[p].idx > Len(run[p].data)
  /\ run' = [run EXCEPT ![p] = [CloseAll(@) EXCEPT !.pc = "done"]]
  /\ UNCHANGED <<job, today, api, local, table, table0>>

\* ------------------------------------------------ historical backfill
\* A day group of the history endpoint's answer.
DayGroup(details) == [Fecha |-> "fecha", Volumen |-> "volumen", Details |-> details]

\* for _, day := range data { for _, d := range day.Details { ... } }
RECURSIVE Flatten(_)
Flatten(groups) ==
  IF groups = <<>> THEN <<>> ELSE Head(groups).Details \o Flatten(Tail(groups))

\* connectDB: pgx.Connect; log.Fatalf when it fails.
HistoricoConnect(p) ==
  /\ job = "historico"
  /\ run[p].pc = "start"
  /\ \E ok \in BOOLEAN :
       run' = [run EXCEPT ![p] =
         IF ok
         THEN [@ EXCEPT !.pc = "lastdate", !.open = @ \cup {"db"},
                        !.opened = @ \cup {"db"}]
         ELSE [@ EXCEPT !.pc = "exited"]]
  /\ UNCHANGED <<job, today, api, local, table, table0>>

\* SELECT COALESCE(MAX(date), '1900-01-01'): the sentinel over no rows.
MaxWithoutCoalesce(t) == IF TableMax(t) = <<>> THEN ZeroTime ELSE TableMax(t)[1]

CoalescedMax(t) == IF TableMax(t) = <<>> THEN Sentinel1900 ELSE TableMax(t)[1]

\* getLastDate: time.Time{} when the query fails.
HistoricoGetLastDate(p) ==
  /\ job = "historico"
  /\ run[p].pc = "lastdate"
  /\ \E ok \in BOOLEAN :
       run' = [run EXCEPT ![p] =
         [@ EXCEPT !.pc = "plan", !.queries = @ + 1,
                   !.lastDate = IF ok THEN CoalescedMax(table) ELSE ZeroTime,
                   !.lastRead = IF ok THEN "ok" ELSE "err"]]
  /\ UNCHANGED <<job, today, api, local, table, table0>>

\* if !lastDate.IsZero() && !lastDate.Before(today) { return }
UpToDateOnlyIfLater(lastDate, now) == ~IsZero(lastDate) /\ After(lastDate, now)

UpToDate(lastDate, now) == ~IsZero(lastDate) /\ ~Before(lastDate, now)

FechaDesdeNoStep(lastDate, now) == IF IsZero(lastDate) THEN now ELSE lastDate

\* fechaDesde: today without a last date, else lastDate.AddDate(0, 0, 1).
FechaDesde(lastDate, now) ==
  IF IsZero(lastDate) THEN now ELSE AddDays(lastDate, 1)

FechaHasta(now) == now

\* main, from the up-to-date test to the computed range.
HistoricoPlan(p) ==
  /\ job = "historico"
  /\ run[p].pc = "plan"
  /\ run' = [run EXCEPT ![p] =
       IF UpToDate(@.lastDate, today)
       THEN [CloseAll(@) EXCEPT !.pc = "done"]
       ELSE [@ EXCEPT !.pc = "fetch",
                      !.request = <<FechaDesde(run[p].lastDate, today),
                                    FechaHasta(today)>>]]
  /\ UNCHANGED <<job, today, api, local, table, table0>>

\* What fetchHistoricoForex returns: nil (<<>>) on a request, status or
\* decode failure, else the decoded day groups.
HistoricoFetched(ok, body) == IF ok THEN body ELSE <<>>

\* fetchHistoricoForex, and main's return on nil data or on no details.
HistoricoFetch(p) ==
  /\ job = "historico"
  /\ run[p].pc = "fetch"
  /\ \E ok \in BOOLEAN :
       LET fetched == HistoricoFetched(ok, api)
           r == [run[p] EXCEPT !.fetch = IF ~ok THEN "failed"
                                         ELSE IF Len(Flatten(api)) = 0 THEN "empty"
                                         ELSE "ok",
                               !.fetchCalls = @ + 1,
                               !.data = fetched]
       IN  run' = [run EXCEPT ![p] =
             IF Len(Flatten(fetched)) = 0
             THEN [CloseAll(r) EXCEPT !.pc = "done"]
             ELSE [r EXCEPT !.pc = "prepare"]]
  /\ UNCHANGED <<job, today, api, local, table, table0>>

\* insertData: conn.Prepare; a failure is logged and insertData returns 0.
HistoricoPrepare(p) ==
  /\ job = "historico"
  /\ run[p].pc = "prepare"
  /\ \E ok \in BOOLEAN :
       run' = [run EXCEPT ![p] =
         IF ok THEN [@ EXCEPT !.pc = "loop", !.prepared = TRUE]
         ELSE [CloseAll(@) EXCEPT !.pc = "done"]]
  /\ UNCHANGED <<job, today, api, local, table, table0>>

\* One iteration of insertData's loops: no test against lastDate.
HistoricoProcess(p) ==
  /\ job = "historico"
  /\ run[p].pc = "loop"
  /\ run[p].idx <= Len(Flatten(run[p].data))
  /\ LET r == run[p]
         d == Flatten(r.data)[r.idx]
         fecha == Fecha(d)
     IN  IF ~fecha.ok
         THEN /\ run' = [run EXCEPT ![p].idx = @ + 1]
              /\ table' = table
         ELSE \E ok \in BOOLEAN :
                /\ run' = [run EXCEPT ![p] =
                             ExecInsert(@, r.idx, ok, HistoricoRow(d, fecha.t))]
                /\ table' = IF ok THEN Append(table, HistoricoRow(d, fecha.t))
                            ELSE table
  /\ UNCHANGED <<job, today, api, local, table0>>

\* insertData returns, main prints the count and ends.
HistoricoFinish(p) ==
  /\ job = "historico"
  /\ run[p].pc = "loop"
  /\ run[p].idx > Len(Flatten(run[p].data))
  /\ run' = [run EXCEPT ![p] = [CloseAll(@) EXCEPT !.pc = "done"]]
  /\ UNCHANGED <<job, today, api, local, table, table0>>

\* ------------------------------------------------ cross-database sync
\* rows.Scan's destinations and conn.Exec's arguments, by variable name.
SyncScanVars ==
  <<"date", "rueda", "instrumento", "currencyOut", "currencyIn", "settle",
    "settleDate", "monto", "cotizacion", "hora", "descripcion", "tipoEmision",
    "codigoSegmento", "codigoPlazo", "moneda", "montoAcumulado",
    "precioUltimo", "ultimaTasa", "precioCierreAnterior", "precioMinimo",
    "precioMaximo", "openInterest", "variacion">>

SyncExecVarsSwapped ==
  <<"date", "rueda", "instrumento", "currencyOut", "currencyIn", "settle",
    "settleDate", "monto", "cotizacion", "hora", "descripcion", "tipoEmision",
    "codigoSegmento", "codigoPlazo", "moneda", "precioUltimo",
    "montoAcumulado", "ultimaTasa", "precioCierreAnterior", "precioMinimo",
    "precioMaximo", "openInterest", "variacion">>

SyncExecVars ==
  <<"date", "rueda", "instrumento", "currencyOut", "currencyIn", "settle",
    "settleDate", "monto", "cotizacion", "hora", "descripcion", "tipoEmision",
    "codigoSegmento", "codigoPlazo", "moneda", "montoAcumulado",
    "precioUltimo", "ultimaTasa", "precioCierreAnterior", "precioMinimo",
    "precioMaximo", "openInterest", "variacion">>

\* The row conn.Exec writes for a row of the result set: each selected
\* column scanned into its variable, each variable bound to its parameter.
SyncCopy(row) ==
  LET scanned == BindRow(SyncScanVars, [i \in 1..Len(ForexCols) |-> row[ForexCols[i]]])
  IN  BindRow(ForexCols, [i \in 1..Len(SyncExecVars) |-> scanned[SyncExecVars[i]]])

SelectedNotStrict(row, lastDate) == row.date >= lastDate

\* WHERE date > $1
Selected(row, lastDate) == row.date > lastDate

RECURSIVE SelectWhere(_, _)
SelectWhere(t, lastDate) ==
  IF t = <<>> THEN <<>>
  ELSE IF Selected(Head(t), lastDate)
       THEN <<Head(t)>> \o SelectWhere(Tail(t), lastDate)
       ELSE SelectWhere(Tail(t), lastDate)

\* ORDER BY date: the orders of the selected rows the database may return.
Orderings(rows) ==
  {[i \in 1..Len(rows) |-> rows[f[i]]] :
     f \in {g \in [1..Len(rows) -> 1..Len(rows)] :
              /\ \A i, j \in 1..Len(rows) : i # j => g[i] # g[j]
              /\ \A i, j \in 1..Len(rows) :
                   i < j => rows[g[i]].date <= rows[g[j]].date}}

\* connectDB(..., "local"); log.Fatalf when it fails.
SyncConnectLocal(p) ==
  /\ job = "sync"
  /\ run[p].pc = "start"
  /\ \E ok \in BOOLEAN :
       run' = [run EXCEPT ![p] =
         IF ok
         THEN [@ EXCEPT !.pc = "connect2", !.open = @ \cup {"local"},
                        !.opened = @ \cup {"local"}]
         ELSE [@ EXCEPT !.pc = "exited"]]
  /\ UNCHANGED <<job, today, api, local, table, table0>>

\* connectDB(..., "gcloud"); log.Fatalf exits without running the deferred
\* localConn.Close.
SyncConnectCloud(p) ==
  /\ job = "sync"
  /\ run[p].pc = "connect2"
  /\ \E ok \in BOOLEAN :
       run' = [run EXCEPT ![p] =
         IF ok
         THEN [@ EXCEPT !.pc = "lastdate", !.open = @ \cup {"gcloud"},
                        !.opened = @ \cup {"gcloud"}]
         ELSE [@ EXCEPT !.pc = "exited"]]
  /\ UNCHANGED <<job, today, api, local, table, table0>>

\* SELECT COALESCE(MAX(date), '1900-01-01') on the destination; log.Fatalf
\* when it fails.
SyncQueryLastDate(p) ==
  /\ job = "sync"
  /\ run[p].pc = "lastdate"
  /\ \E ok \in BOOLEAN :
       run' = [run EXCEPT ![p] =
         IF ok
         THEN [@ EXCEPT !.pc = "select", !.queries = @ + 1,
                        !.lastDate = CoalescedMax(table), !.lastRead = "ok"]
         ELSE [@ EXCEPT !.pc = "exited", !.queries = @ + 1, !.lastRead = "err"]]
  /\ UNCHANGED <<job, today, api, local, table, table0>>

\* localConn.Query of the rows after lastDate; log.Fatalf when it fails.
SyncQuerySource(p) ==
  /\ job = "sync"
  /\ run[p].pc = "select"
  /\ \/ run' = [run EXCEPT ![p].pc = "exited", ![p].queries = @ + 1]
     \/ \E rows \in Orderings(SelectWhere(local, run[p].lastDate)) :
          run' = [run EXCEPT ![p].pc = "prepare", ![p].queries = @ + 1,
                             ![p].pending = rows]
  /\ UNCHANGED <<job, today, api, local, table, table0>>

\* cloudConn.Prepare; log.Fatalf when it fails.
SyncPrepare(p) ==
  /\ job = "sync"
  /\ run[p].pc = "prepare"
  /\ \E ok \in BOOLEAN :
       run' = [run EXCEPT ![p] =
         IF ok THEN [@ EXCEPT !.pc = "loop", !.prepared = TRUE]
         ELSE [@ EXCEPT !.pc = "exited"]]
  /\ UNCHANGED <<job, today, api, local, table, table0>>

\* One iteration of for rows.Next(): Scan (a failure skips the row), Exec.
SyncCopyRow(p) ==
  /\ job = "sync"
  /\ run[p].pc = "loop"
  /\ run[p].idx <= Len(run[p].pending)
  /\ LET r == run[p]
         row == SyncCopy(r.pending[r.idx])
     IN  \E outcome \in {"scanerr", "execerr", "ok"} :
           IF outcome = "scanerr"
           THEN /\ run' = [run EXCEPT ![p].idx = @ + 1, ![p].scanErrs = @ + 1]
                /\ table' = table
           ELSE /\ run' = [run EXCEPT ![p] =
                             ExecInsert(@, r.idx, outcome = "ok", row)]
                /\ table' = IF outcome = "ok" THEN Append(table, row) ELSE table
  /\ UNCHANGED <<job, today, api, local, table0>>

\* rows.Next() returns false: the result set is exhausted, or reading it
\* failed (rows.Err() is logged).  main prints the count and returns; the
\* deferred Close calls run.
SyncFinish(p) ==
  /\ job = "sync"
  /\ run[p].pc = "loop"
  /\ run' = [run EXCEPT ![p] =
       [CloseAll(@) EXCEPT !.pc = "done",
                           !.iterErr = run[p].idx <= Len(run[p].pending)]]
  /\ UNCHANGED <<job, today, api, local, table, table0>>

\* ------------------------------------------------------------ legacy job
LayoutClock == "15:04:05"

\* pattern.FindStringSubmatch(titulo): the four groups, or no match (<<>>).
\* A titulo is its text and what the pattern finds in it.
FindStringSubmatch(titulo) == titulo.groups

\* A record of the legacy endpoint, as the API may send it on a day.
LegacyTitulo(day) ==
  IF day % 2 = 0
  THEN [text |-> "CCC / CCC NNN YYMMDD",
        groups |-> <<[currency_out |-> <<"U", "S", "D">>, currency_in |-> ART,
                      settle |-> <<"0", "0", "1">>,
                      settle_date |-> TimeText(LayoutYYMMDD, day)]>>]
  ELSE [text |-> "other", groups |-> <<>>]

LegacyRecord(fecha) ==
  [Fecha |-> fecha, Titulo |-> LegacyTitulo(fecha.day), Rueda |-> "rueda",
   Monto |-> "monto", Cotizacion |-> "cotizacion",
   Hora |-> TimeText(LayoutClock, fecha.day)]

LegacyFechas == {TimeText(LayoutYYMMDD, d) : d \in Dates} \cup {GarbageText}
LegacyRecords == {LegacyRecord(f) : f \in LegacyFechas}

\* fetchForexData's processed frame, row by row: the date re-formatted or
\* "", the pattern's groups or nil, the hour re-formatted or "00:00:00".
LegacyFrameRow(d) ==
  LET t == ParseTime(LayoutYYMMDD, d.Fecha)
      m == FindStringSubmatch(d.Titulo)
      h == ParseTime(LayoutClock, d.Hora)
  IN  [date |-> IF t.ok THEN FormatTime(LayoutYMD, t.t) ELSE EmptyText,
       rueda |-> d.Rueda,
       instrumento |-> d.Titulo.text,
       currency_out |-> IF m # <<>> THEN <<m[1].currency_out>> ELSE <<>>,
       currency_in |-> IF m # <<>> THEN <<m[1].currency_in>> ELSE <<>>,
       settle |-> IF m # <<>> THEN <<m[1].settle>> ELSE <<>>,
       settle_date |-> IF m # <<>> THEN <<m[1].settle_date>> ELSE <<>>,
       monto |-> d.Monto,
       cotizacion |-> d.Cotizacion,
       hora |-> IF h.ok THEN FormatTime(LayoutClock, h.t)
                ELSE TimeText(LayoutClock, ZeroTime)]

LegacyFrame(records) == [i \in 1..Len(records) |-> LegacyFrameRow(records[i])]

\* settleVal: nil unless the frame holds a non-empty string that Atoi takes.
LegacySettle(v) ==
  IF v # <<>> /\ v[1] # <<>> /\ Atoi(v[1]).ok THEN <<Atoi(v[1]).n>> ELSE <<>>

\* settleDateVal: nil unless the frame holds a non-empty string in yymmdd.
LegacySettleDate(v) ==
  IF v # <<>> /\ v[1] # EmptyText /\ ParseTime(LayoutYYMMDD, v[1]).ok
  THEN <<ParseTime(LayoutYYMMDD, v[1]).t>>
  ELSE <<>>

LegacyRow(f, date) ==
  BindRow(LegacyCols,
          <<date, f.rueda, f.instrumento, f.currency_out, f.currency_in,
            LegacySettle(f.settle), LegacySettleDate(f.settle_date),
            f.monto, f.cotizacion, f.hora>>)

\* What fetchForexData returns: nil (<<>>) on a request, status or decode
\* failure and on no records, else the processed frame.
LegacyFetched(ok, body) == IF ok THEN LegacyFrame(body) ELSE <<>>

\* fetchForexData, and main's if forexData != nil { saveToDatabase(forexData) }.
LegacyFetch(p) ==
  /\ job = "legacy"
  /\ run[p].pc = "start"
  /\ \E ok \in BOOLEAN :
       LET fetched == LegacyFetched(ok, api)
       IN  run' = [run EXCEPT ![p] =
             [@ EXCEPT !.pc = IF fetched # <<>> THEN "connect" ELSE "done",
                       !.fetch = IF ~ok THEN "failed"
                                 ELSE IF Len(api) = 0 THEN "empty" ELSE "ok",
                       !.fetchCalls = @ + 1,
                       !.data = fetched]]
  /\ UNCHANGED <<job, today, api, local, table, table0>>

\* pgx.Connect; log.Fatalf when it fails.
LegacyConnect(p) ==
  /\ job = "legacy"
  /\ run[p].pc = "connect"
  /\ \E ok \in BOOLEAN :
       run' = [run EXCEPT ![p] =
         IF ok
         THEN [@ EXCEPT !.pc = "query", !.open = @ \cup {"db"},
                        !.opened = @ \cup {"db"}]
         ELSE [@ EXCEPT !.pc = "exited"]]
  /\ UNCHANGED <<job, today, api, local, table, table0>>

\* SELECT MAX(date) FROM public.forex3, as in the current-snapshot job.
LegacyQueryLastDate(p) ==
  /\ job = "legacy"
  /\ run[p].pc = "query"
  /\ \E ok \in BOOLEAN :
       run' = [run EXCEPT ![p] = [ReadMaxDate(@, ok) EXCEPT !.pc = "collect"]]
  /\ UNCHANGED <<job, today, api, local, table, table0>>

\* if lastDate.IsZero() || date.After(lastDate) { rowsToInsert = append(...) }
IsNew(lastDate, date) == IsZero(lastDate) \/ After(date, lastDate)

\* date, err := time.Parse("2006-01-02", dateStr); if err != nil { continue }
LegacyDate(f) == ParseTime(LayoutYMD, f.date)

\* The loop that fills rowsToInsert, from frame row i on.
RECURSIVE RowsToInsert(_, _, _)
RowsToInsert(frame, i, lastDate) ==
  IF i > Len(frame) THEN <<>>
  ELSE LET date == LegacyDate(frame[i])
       IN  IF date.ok /\ IsNew(lastDate, date.t)
           THEN <<[i |-> i, row |-> LegacyRow(frame[i], date.t)]>>
                  \o RowsToInsert(frame, i + 1, lastDate)
           ELSE RowsToInsert(frame, i + 1, lastDate)

\* The filtering loop; saveToDatabase returns when nothing is new.
LegacyCollect(p) ==
  /\ job = "legacy"
  /\ run[p].pc = "collect"
  /\ LET rows == RowsToInsert(run[p].data, 1, run[p].lastDate)
     IN  run' = [run EXCEPT ![p] =
           IF Len(rows) = 0
           THEN [CloseAll(@) EXCEPT !.pc = "done"]
           ELSE [@ EXCEPT !.pc = "prepare", !.pending = rows]]
  /\ UNCHANGED <<job, today, api, local, table, table0>>

\* conn.Prepare; a failure is logged and saveToDatabase returns.
LegacyPrepare(p) ==
  /\ job = "legacy"
  /\ run[p].pc = "prepare"
  /\ \E ok \in BOOLEAN :
       run' = [run EXCEPT ![p] =
         IF ok THEN [@ EXCEPT !.pc = "loop", !.prepared = TRUE]
         ELSE [CloseAll(@) EXCEPT !.pc = "done"]]
  /\ UNCHANGED <<job, today, api, local, table, table0>>

\* One iteration of the loop over rowsToInsert.
LegacyExec(p) ==
  /\ job = "legacy"
  /\ run[p].pc = "loop"
  /\ run[p].idx <= Len(run[p].pending)
  /\ LET r == run[p]
         e == r.pending[r.idx]
     IN  \E ok \in BOOLEAN :
           /\ run' = [run EXCEPT ![p] = ExecInsert(@, e.i, ok, e.row)]
           /\ table' = IF ok THEN Append(table, e.row) ELSE table
  /\ UNCHANGED <<job, today, api, local, table0>>

\* The count is printed, the deferred Close runs and main ends.
LegacyFinish(p) ==
  /\ job = "legacy"
  /\ run[p].pc = "loop"
  /\ run[p].idx > Len(run[p].pending)
  /\ run' = [run EXCEPT ![p] = [CloseAll(@) EXCEPT !.pc = "done"]]
  /\ UNCHANGED <<job, today, api, local, table, table0>>

\* ------------------------------------------------------ initial states
\* A row of public.forex as an earlier run of the loaders stored it.
StoredForexRow(day) ==
  CurrentRow(CurrentRecord(TimeText(LayoutISO, day), DerivablesOn(day)), day)

\* A row of public.forex3 as an earlier run of the legacy job stored it.
StoredLegacyRow(day) ==
  LegacyRow(LegacyFrameRow(LegacyRecord(TimeText(LayoutYYMMDD, day))), day)

\* A row of the sync's tables: a date, and per column a value or NULL.
SyncRow(day) ==
  [c \in Range(ForexCols) |->
     LET i == CHOOSE k \in 1..Len(ForexCols) : ForexCols[k] = c
     IN  IF c = "date" THEN day
         ELSE IF (i + day) % 3 = 0 THEN <<>>
         ELSE <<10 * i + day>>]

\* The destination holds no row, or rows up to some date.
InitialTables(j) ==
  {<<>>} \cup
  {<<CASE j = "legacy" -> StoredLegacyRow(d)
       [] j = "sync" -> SyncRow(d)
       [] OTHER -> StoredForexRow(d)>> : d \in StoredDates}

\* The history endpoint's answer: no day, or details spread over two days.
HistoricoResponses ==
  {<<>>} \cup
  {<<DayGroup(SubSeq(f, 1, k)), DayGroup(SubSeq(f, k + 1, Len(f)))>> :
     <<f, k>> \in {<<g, n>> \in SeqsOf(HistoricoRecords, 0, MaxDetails) \X (0..MaxDetails) :
                    n <= Len(g)}}

Responses(j) ==
  CASE j = "current" -> SeqsOf(CurrentRecords, 0, MaxBatch)
    [] j = "legacy" -> SeqsOf(LegacyRecords, 0, MaxBatch)
    [] j = "historico" -> HistoricoResponses
    [] OTHER -> {<<>>}

InitJob(j) ==
  /\ job = j
  /\ today \in (IF j = "historico" THEN StoredDates ELSE {MaxDate})
  /\ api \in Responses(j)
  /\ local \in (IF j = "sync" THEN SeqsOf({SyncRow(d) : d \in StoredDates}, 0, MaxBatch)
                ELSE {<<>>})
  /\ table \in InitialTables(j)
  /\ table0 = table

\* One process of one of the four programs.
Init ==
  /\ \E j \in Jobs : InitJob(j)
  /\ run = [p \in Runs |-> IF p = "r1" THEN NewRun ELSE Idle]

Next ==
  \E p \in Runs :
    \/ CurrentFetch(p)
    \/ CurrentConnect(p)
    \/ CurrentQueryLastDate(p)
    \/ CurrentPrepare(p)
    \/ CurrentProcess(p)
    \/ CurrentFinish(p)
    \/ LegacyFetch(p)
    \/ LegacyConnect(p)
    \/ LegacyQueryLastDate(p)
    \/ LegacyCollect(p)
    \/ LegacyPrepare(p)
    \/ LegacyExec(p)
    \/ LegacyFinish(p)
    \/ HistoricoConnect(p)
    \/ HistoricoGetLastDate(p)
    \/ HistoricoPlan(p)
    \/ HistoricoFetch(p)
    \/ HistoricoPrepare(p)
    \/ HistoricoProcess(p)
    \/ HistoricoFinish(p)
    \/ SyncConnectLocal(p)
    \/ SyncConnectCloud(p)
    \/ SyncQueryLastDate(p)
    \/ SyncQuerySource(p)
    \/ SyncPrepare(p)
    \/ SyncCopyRow(p)
    \/ SyncFinish(p)

Spec == Init /\ [][Next]_vars

\* One record of the current-snapshot or the backfill endpoint, its derivable
\* fields drawn from every combination, alone or after a plain record.
DerivableBatches(j) ==
  LET fecha == TimeText(LayoutISO, MaxDate)
      rec(v) == IF j = "current" THEN CurrentRecord(fecha, v)
                ELSE HistoricoRecord(fecha, v)
      flat == {<<rec(v)>> : v \in Derivables}
                \cup {<<rec(DerivablesOn(MaxDate)), rec(v)>> : v \in Derivables}
  IN  IF j = "current" THEN flat ELSE {<<DayGroup(f)>> : f \in flat}

InitDerive ==
  /\ job \in {"current", "historico"}
  /\ today = MaxDate
  /\ api \in DerivableBatches(job)
  /\ local = <<>>
  /\ table = <<>>
  /\ table0 = table
  /\ run = [p \in Runs |-> IF p = "r1" THEN NewRun ELSE Idle]

NextDerive ==
  \E p \in Runs :
    \/ CurrentFetch(p)
    \/ CurrentConnect(p)
    \/ CurrentQueryLastDate(p)
    \/ CurrentPrepare(p)
    \/ CurrentProcess(p)
    \/ CurrentFinish(p)
    \/ HistoricoConnect(p)
    \/ HistoricoGetLastDate(p)
    \/ HistoricoPlan(p)
    \/ HistoricoFetch(p)
    \/ HistoricoPrepare(p)
    \/ HistoricoProcess(p)
    \/ HistoricoFinish(p)

\* The two loaders that derive fields, over every shape of those fields.
SpecDerive == InitDerive /\ [][NextDerive]_vars

\* The optional fields of one record, every plazo with every settlement date.
OptionalDerivables ==
  {[DerivablesOn(MaxDate) EXCEPT !.Plazo = pl, !.FechaLiquidacion = fl] :
     pl \in Plazos, fl \in FechasLiquidacion}

\* What the pattern may find in a legacy titulo: nothing, a term and six
\* digits that are a date, a term and six digits that are no date.
LegacyTitulos ==
  {LegacyTitulo(1), LegacyTitulo(Sentinel1900 + 3),
   [text |-> "CCC / CCC NNN 999999",
    groups |-> <<[currency_out |-> <<"U", "S", "D">>, currency_in |-> ART,
                  settle |-> <<"0", "0", "1">>,
                  settle_date |-> TimeText("999999", ZeroTime)]>>]}

LegacyRecordWith(fecha, titulo) == [LegacyRecord(fecha) EXCEPT !.Titulo = titulo]

\* One or two records dated today, their optional fields drawn from every
\* combination.
OptionalBatches(j) ==
  LET recs ==
        CASE j = "legacy" ->
               {LegacyRecordWith(TimeText(LayoutYYMMDD, MaxDate), t) :
                  t \in LegacyTitulos}
          [] j = "current" ->
               {CurrentRecord(TimeText(LayoutISO, MaxDate), v) :
                  v \in OptionalDerivables}
          [] OTHER ->
               {HistoricoRecord(TimeText(LayoutISO, MaxDate), v) :
                  v \in OptionalDerivables}
      flat == SeqsOf(recs, 1, 2)
  IN  IF j = "historico" THEN {<<DayGroup(f)>> : f \in flat} ELSE flat

InitOptional ==
  /\ job \in {"current", "legacy", "historico"}
  /\ today = MaxDate
  /\ api \in OptionalBatches(job)
  /\ local = <<>>
  /\ table \in InitialTables(job)
  /\ table0 = table
  /\ run = [p \in Runs |-> IF p = "r1" THEN NewRun ELSE Idle]

NextOptional ==
  \E p \in Runs :
    \/ CurrentFetch(p)
    \/ CurrentConnect(p)
    \/ CurrentQueryLastDate(p)
    \/ CurrentPrepare(p)
    \/ CurrentProcess(p)
    \/ CurrentFinish(p)
    \/ LegacyFetch(p)
    \/ LegacyConnect(p)
    \/ LegacyQueryLastDate(p)
    \/ LegacyCollect(p)
    \/ LegacyPrepare(p)
    \/ LegacyExec(p)
    \/ LegacyFinish(p)
    \/ HistoricoConnect(p)
    \/ HistoricoGetLastDate(p)
    \/ HistoricoPlan(p)
    \/ HistoricoFetch(p)
    \/ HistoricoPrepare(p)
    \/ HistoricoProcess(p)
    \/ HistoricoFinish(p)

\* The three loaders that parse optional fields, over every shape of them.
SpecOptional == InitOptional /\ [][NextOptional]_vars

\* Two processes of the current-snapshot job started side by side (nothing in
\* the program holds one back while the other runs), both given the same
\* answer by the endpoint.
InitOverlap ==
  /\ job = "current"
  /\ today = MaxDate
  /\ api \in SeqsOf(CurrentRecords, 0, MaxRunBatch)
  /\ local = <<>>
  /\ table \in InitialTables("current")
  /\ table0 = table
  /\ run = [p \in Runs |-> NewRun]

NextOverlap ==
  \E p \in Runs :
    \/ CurrentFetch(p)
    \/ CurrentConnect(p)
    \/ CurrentQueryLastDate(p)
    \/ CurrentPrepare(p)
    \/ CurrentProcess(p)
    \/ CurrentFinish(p)

SpecOverlap == InitOverlap /\ [][NextOverlap]_vars

\* The job is started again (by cron, by hand) once the process before it
\* has ended: a new process, with nothing kept from the earlier one.
StartNext(p) ==
  /\ run[p].pc = "off"
  /\ \A q \in Runs \ {p} : run[q].pc \in {"done", "exited"}
  /\ run' = [run EXCEPT ![p] = NewRun]
  /\ UNCHANGED <<job, today, api, local, table, table0>>

\* Two processes of the current-snapshot job or of the sync, the second
\* started after the first has ended, on the same endpoint answer and the
\* same source table.
InitSequential ==
  /\ job \in {"current", "sync"}
  /\ today = MaxDate
  /\ api \in (IF job = "current" THEN SeqsOf(CurrentRecords, 0, MaxRunBatch)
               ELSE {<<>>})
  /\ local \in (IF job = "sync"
                 THEN SeqsOf({SyncRow(d) : d \in StoredDates}, 0, MaxRunBatch)
                 ELSE {<<>>})
  /\ table \in InitialTables(job)
  /\ table0 = table
  /\ run = [p \in Runs |-> IF p = "r1" THEN NewRun ELSE Idle]

NextSequential ==
  \E p \in Runs :
    \/ StartNext(p)
    \/ CurrentFetch(p)
    \/ CurrentConnect(p)
    \/ CurrentQueryLastDate(p)
    \/ CurrentPrepare(p)
    \/ CurrentProcess(p)
    \/ CurrentFinish(p)
    \/ SyncConnectLocal(p)
    \/ SyncConnectCloud(p)
    \/ SyncQueryLastDate(p)
    \/ SyncQuerySource(p)
    \/ SyncPrepare(p)
    \/ SyncCopyRow(p)
    \/ SyncFinish(p)

SpecSequential == InitSequential /\ [][NextSequential]_vars

\* ================================================================ claims
\* What the properties below read off a state, from the inputs (api, local,
\* table0) rather than from the jobs' own locals.

\* The records the job's insertion pass runs over, as the endpoint sent them.
Batch == IF job = "historico" THEN Flatten(api) ELSE api

\* The layout the endpoint writes a record's date in.
WireLayout == IF job = "legacy" THEN LayoutYYMMDD ELSE LayoutISO

DateParses(i) == Batch[i].Fecha.layout = WireLayout
Day(i) == Batch[i].Fecha.day

\* The maximum date of the table before the run: <<>> over no rows.
StoredMax ==
  IF table0 = <<>> THEN <<>>
  ELSE <<CHOOSE m \in {table0[k].date : k \in 1..Len(table0)} :
           \A k \in 1..Len(table0) : table0[k].date <= m>>

\* The cutoff of the run of p: the maximum date it read, none when the table
\* had no rows or the read failed.
Cutoff(p) == IF run[p].lastRead = "ok" THEN StoredMax ELSE <<>>

AfterCutoff(p, i) == Cutoff(p) = <<>> \/ Day(i) > Cutoff(p)[1]

\* The batch positions an insert was attempted for, and those stored.
Attempted(p) == {run[p].attempts[k].i : k \in 1..Len(run[p].attempts)}
OkAttempts(p) == SelectSeq(run[p].attempts, LAMBDA a : a.ok)

\* The insertion pass ran to its end.
PassOver(p) == run[p].pc = "done" /\ run[p].prepared /\ ~run[p].iterErr

\* The insertion pass of the legacy job had nothing to insert.
NothingNew(p) ==
  /\ job = "legacy"
  /\ run[p].pc = "done"
  /\ run[p].lastRead # "none"
  /\ run[p].pending = <<>>

\* The batch positions the pass has dealt with.
Handled(p) ==
  CASE job \in {"current", "historico"} /\ run[p].prepared -> 1..(run[p].idx - 1)
    [] job = "legacy" /\ run[p].prepared ->
         {i \in 1..Len(Batch) :
            \A k \in run[p].idx..Len(run[p].pending) : run[p].pending[k].i # i}
    [] NothingNew(p) -> 1..Len(Batch)
    [] OTHER -> {}

\* C1: in the current-snapshot and the legacy job, for every record whose
\* date parses, an insert is attempted if and only if its date is strictly
\* after the cutoff, the table's MAX(date) as it was before the run's first
\* insert; with no cutoff (no rows) every such record is attempted.
C1_InsertIffAfterCutoff ==
  \A p \in Runs :
    job \in {"current", "legacy"} =>
      \A i \in Handled(p) :
        DateParses(i) => (i \in Attempted(p) <=> AfterCutoff(p, i))

\* C1 witness: a finished pass that read a cutoff, skipped a record dated
\* exactly the cutoff and attempted two later records after it, the second
\* after the first was stored (the table's maximum had moved by then).
C1_Witness ==
  \E p \in Runs :
    /\ job \in {"current", "legacy"}
    /\ PassOver(p)
    /\ run[p].lastRead = "ok"
    /\ \E i, j, k \in 1..Len(Batch) :
         /\ DateParses(i) /\ Day(i) = Cutoff(p)[1] /\ i \notin Attempted(p)
         /\ DateParses(j) /\ DateParses(k) /\ j < k /\ Day(j) >= Day(k)
         /\ Day(k) > Cutoff(p)[1]
         /\ {j, k} \subseteq Attempted(p)
         /\ \E a \in 1..Len(run[p].attempts) :
              run[p].attempts[a].i = j /\ run[p].attempts[a].ok

\* The backfill has planned its range.
Planned(p) == job = "historico" /\ run[p].pc \in {"fetch", "prepare", "loop", "done"}

\* C2: in the backfill, when the last stored date L exists and is before
\* today, the one request carries [L + 1 day, today].
C2_BackfillRange ==
  \A p \in Runs :
    (/\ Planned(p)
     /\ run[p].lastRead = "ok"
     /\ StoredMax # <<>>
     /\ StoredMax[1] < today)
    => /\ run[p].request = <<StoredMax[1] + 1, today>>
       /\ run[p].fetchCalls = (IF run[p].pc = "fetch" THEN 0 ELSE 1)

\* C2 witness: a request sent for a range of more than one day.
C2_Witness ==
  \E p \in Runs :
    /\ Planned(p)
    /\ run[p].lastRead = "ok"
    /\ StoredMax # <<>>
    /\ run[p].fetchCalls = 1
    /\ run[p].request = <<StoredMax[1] + 1, today>>
    /\ StoredMax[1] + 1 < today

\* C3 as stated: in the backfill, when the table has no rows, the range is
\* [today, today].
C3_EmptyTableStartsToday ==
  \A p \in Runs :
    (Planned(p) /\ table0 = <<>>) => run[p].request = <<today, today>>

\* C3 amended: when the table has no rows the last date read is the
\* 1900-01-01 sentinel and the range is [1900-01-02, today]; the range is
\* [today, today] only when the last-date query fails.
C3_EmptyTableStartsAfterSentinel ==
  \A p \in Runs :
    (Planned(p) /\ table0 = <<>>) =>
      run[p].request =
        IF run[p].lastRead = "ok" THEN <<Sentinel1900 + 1, today>>
        ELSE <<today, today>>

\* C3 witness: a request sent over an empty table whose last date was read.
C3_Witness ==
  \E p \in Runs :
    /\ Planned(p)
    /\ table0 = <<>>
    /\ run[p].lastRead = "ok"
    /\ run[p].fetchCalls = 1
    /\ run[p].request = <<Sentinel1900 + 1, today>>
    /\ run[p].request # <<today, today>>

\* C4: in the backfill, when the last stored date is on or after today, the
\* run ends with nothing to do: no request to the endpoint, no insert.
C4_NothingToDo ==
  \A p \in Runs :
    (/\ job = "historico"
     /\ run[p].lastRead = "ok"
     /\ StoredMax # <<>>
     /\ StoredMax[1] >= today)
    => /\ run[p].pc \in {"plan", "done"}
       /\ run[p].fetchCalls = 0
       /\ run[p].request = <<>>
       /\ run[p].attempts = <<>>
       /\ ~run[p].prepared
       /\ table = table0

\* C4 witness: a run that ended at the up-to-date test with the last stored
\* date equal to today.
C4_Witness ==
  \E p \in Runs :
    /\ job = "historico"
    /\ run[p].pc = "done"
    /\ run[p].lastRead = "ok"
    /\ StoredMax = <<today>>
    /\ run[p].fetchCalls = 0
    /\ run[p].open = {}

\* The rows the runs added to the destination.
Added == SubSeq(table, Len(table0) + 1, Len(table))

Count(seq, x) == Cardinality({i \in 1..Len(seq) : seq[i] = x})

\* No row copy of the sync failed.
NoCopyFailed(p) ==
  /\ run[p].scanErrs = 0
  /\ \A k \in 1..Len(run[p].attempts) : run[p].attempts[k].ok

\* The sync's cutoff: the destination's maximum date before the run, the
\* 1900-01-01 sentinel over no rows.
SyncCutoff == IF StoredMax = <<>> THEN Sentinel1900 ELSE StoredMax[1]

\* The source rows after the cutoff, by position.
Newer == {i \in 1..Len(local) : local[i].date > SyncCutoff}

\* C5: a sync run in which no row copy fails adds to the destination exactly
\* the source rows dated strictly after the destination's maximum date at
\* the start, every column value (NULL included) as in the source; an empty
\* destination gets every source row.
C5_SyncCopiesNewerRows ==
  \A p \in Runs :
    (job = "sync" /\ PassOver(p) /\ NoCopyFailed(p)) =>
      /\ SubSeq(table, 1, Len(table0)) = table0
      /\ Len(Added) = Cardinality(Newer)
      /\ \A i \in Newer :
           Count(Added, local[i]) = Cardinality({j \in Newer : local[j] = local[i]})
      /\ table0 = <<>> => Len(Added) = Len(local)

\* C5 witness: a sync without failure that left a row dated the cutoff and
\* copied a later one holding a NULL and a value.
C5_Witness ==
  \E p \in Runs :
    /\ job = "sync" /\ PassOver(p) /\ NoCopyFailed(p)
    /\ table0 # <<>>
    /\ \E i \in 1..Len(local) : local[i].date = SyncCutoff
    /\ \E i \in Newer :
         /\ Count(Added, local[i]) >= 1
         /\ local[i].hora = <<>> \/ local[i].settle = <<>>
         /\ local[i].monto # <<>>

\* C6 as stated: in the three fetching jobs a failed fetch leaves the
\* database untouched: no connection opened, no query run, no insert.
C6_FetchFailureOpensNothing ==
  \A p \in Runs :
    (job \in {"current", "legacy", "historico"} /\ run[p].fetch = "failed") =>
      /\ run[p].opened = {}
      /\ run[p].queries = 0
      /\ run[p].attempts = <<>>

\* C6 amended: a failed fetch skips the load phase: nothing is prepared or
\* inserted and the run ends.  The current-snapshot and legacy jobs have
\* then opened no connection and run no query; the backfill opened its
\* connection and read the last date before the fetch, and closes it.
C6_FetchFailureSkipsLoad ==
  \A p \in Runs :
    (job \in {"current", "legacy", "historico"} /\ run[p].fetch = "failed") =>
      /\ run[p].pc = "done"
      /\ ~run[p].prepared
      /\ run[p].attempts = <<>>
      /\ table = table0
      /\ run[p].open = {}
      /\ IF job = "historico"
         THEN run[p].opened = {"db"} /\ run[p].queries = 1
         ELSE run[p].opened = {} /\ run[p].queries = 0

\* C6 witness: a current-snapshot run whose fetch failed although the
\* endpoint had records, ended with the database untouched.
C6_Witness ==
  \E p \in Runs :
    /\ job = "current"
    /\ run[p].fetch = "failed"
    /\ api # <<>>
    /\ run[p].pc = "done"
    /\ run[p].opened = {}

\* The records of a finished pass an insert is due for.
Due(p, i) ==
  CASE job \in {"current", "legacy"} -> DateParses(i) /\ AfterCutoff(p, i)
    [] OTHER -> DateParses(i)

\* C7: in every job a failed insert neither ends the batch nor undoes
\* earlier inserts: the destination holds the rows it had plus the row of
\* every successful insert, in order; the inserted counter is the number of
\* successful inserts; and a finished pass attempted every record due.
C7_FailedInsertIsolated ==
  \A p \in Runs :
    run[p].pc # "off" =>
      /\ table = table0 \o [k \in 1..Len(OkAttempts(p)) |-> OkAttempts(p)[k].row]
      /\ run[p].inserted = Len(OkAttempts(p))
      /\ PassOver(p) =>
           IF job = "sync"
           THEN Len(run[p].attempts) + run[p].scanErrs = Len(run[p].pending)
           ELSE \A i \in 1..Len(Batch) : Due(p, i) => i \in Attempted(p)

\* C7 witness: a finished pass with a stored row, then a failed insert, then
\* another stored row.
C7_Witness ==
  \E p \in Runs :
    /\ PassOver(p)
    /\ \E a, b, c \in 1..Len(run[p].attempts) :
         /\ a < b /\ b < c
         /\ run[p].attempts[a].ok
         /\ ~run[p].attempts[b].ok
         /\ run[p].attempts[c].ok
    /\ run[p].inserted = 2
    /\ Len(table) = Len(table0) + 2

\* C8: a record whose date does not parse is dropped: no insert is
\* attempted for it, neither counter counts it, and the records after it are
\* still processed.
C8_UnparseableDateDropped ==
  \A p \in Runs :
    job \in {"current", "legacy", "historico"} =>
      /\ \A i \in Handled(p) : ~DateParses(i) => i \notin Attempted(p)
      /\ run[p].inserted =
           Cardinality({k \in 1..Len(run[p].attempts) :
                          run[p].attempts[k].ok /\ DateParses(run[p].attempts[k].i)})
      /\ run[p].skipped =
           IF job = "current"
           THEN Cardinality({i \in Handled(p) : DateParses(i) /\ i \notin Attempted(p)})
           ELSE 0
      /\ (PassOver(p) \/ NothingNew(p)) => Handled(p) = 1..Len(Batch)
      /\ PassOver(p) => \A i \in 1..Len(Batch) : Due(p, i) => i \in Attempted(p)

\* C8 witness: a finished pass that dropped a record without a date and
\* stored the record after it.
C8_Witness ==
  \E p \in Runs :
    /\ job \in {"current", "legacy", "historico"}
    /\ PassOver(p)
    /\ \E i, j \in 1..Len(Batch) :
         /\ i < j
         /\ ~DateParses(i) /\ i \notin Attempted(p)
         /\ \E k \in 1..Len(run[p].attempts) :
              run[p].attempts[k].i = j /\ run[p].attempts[k].ok
    /\ run[p].inserted = 1
    /\ run[p].skipped = 0

\* C9 as stated: every connection a process opened is closed when the
\* process ends, on every exit path.
C9_ConnectionsClosedAtExit ==
  \A p \in Runs : run[p].pc \in {"done", "exited"} => run[p].open = {}

\* The record the k-th stored row of the run of p was made from.
SourceOf(p, k) == Batch[OkAttempts(p)[k].i]

EndsInDollarT(s) ==
  Len(s) >= 2 /\ s[Len(s) - 1] = "$" /\ s[Len(s)] = "T"

\* C10: every row the current-snapshot and backfill jobs store holds the
\* derived fields of its record: currency_out is the ticker less one
\* trailing "$T" (the ticker itself without one); currency_in is "ART" for
\* moneda "T", else moneda; rueda is "CAM2" for "Minorista", "CAM1" for
\* "Mayorista", else segmento; instrumento is
\* "<currency_out> / <currency_in> <plazo>" with plazo as sent, whatever
\* settle holds.
C10_DerivedFields ==
  \A p \in Runs :
    (job \in {"current", "historico"} /\ run[p].pc # "off") =>
      /\ Len(Added) = Len(OkAttempts(p))
      /\ \A k \in 1..Len(OkAttempts(p)) :
           LET d == SourceOf(p, k)
               row == Added[k]
           IN  /\ IF EndsInDollarT(d.Ticker)
                  THEN row.currency_out \o <<"$", "T">> = d.Ticker
                  ELSE row.currency_out = d.Ticker
               /\ row.currency_in = (IF d.Moneda = <<"T">> THEN <<"A", "R", "T">>
                                     ELSE d.Moneda)
               /\ d.Segmento = Minorista => row.rueda = <<"C", "A", "M", "2">>
               /\ d.Segmento = Mayorista => row.rueda = <<"C", "A", "M", "1">>
               /\ d.Segmento \notin {Minorista, Mayorista} => row.rueda = d.Segmento
               /\ row.instrumento =
                    row.currency_out \o <<" ", "/", " ">> \o row.currency_in
                      \o <<" ">> \o d.Plazo

\* C10 witness: a stored row of ticker "U$T$T" and plazo "000": currency_out
\* keeps one "$T", settle is the integer 0 and instrumento ends in "000".
C10_Witness ==
  \E p \in Runs :
    /\ job \in {"current", "historico"}
    /\ Len(OkAttempts(p)) >= 1
    /\ Len(Added) = Len(OkAttempts(p))
    /\ \E k \in 1..Len(Added) :
         /\ SourceOf(p, k).Ticker = <<"U", "$", "T", "$", "T">>
         /\ SourceOf(p, k).Plazo = <<"0", "0", "0">>
         /\ SourceOf(p, k).Moneda = <<"T">>
         /\ Added[k].currency_out = <<"U", "$", "T">>
         /\ Added[k].settle = <<0>>
         /\ Added[k].instrumento =
              <<"U", "$", "T", " ", "/", " ", "A", "R", "T", " ", "0", "0", "0">>

\* The settlement term and settlement date texts of a record as the endpoint
\* sent it; the legacy endpoint sends both inside the titulo, or neither.
TermText(d) ==
  IF job = "legacy"
  THEN IF d.Titulo.groups = <<>> THEN <<>> ELSE d.Titulo.groups[1].settle
  ELSE d.Plazo

SettleDateText(d) ==
  IF job = "legacy"
  THEN IF d.Titulo.groups = <<>> THEN EmptyText
       ELSE d.Titulo.groups[1].settle_date
  ELSE d.FechaLiquidacion

\* An optional sign followed by one or more decimal digits.
IsIntegerText(s) ==
  LET body == IF s # <<>> /\ s[1] \in {"+", "-"} THEN Tail(s) ELSE s
  IN  /\ Len(body) >= 1
      /\ \A i \in 1..Len(body) :
           body[i] \in {"0", "1", "2", "3", "4", "5", "6", "7", "8", "9"}

\* The layout the endpoint writes a settlement date in.
SettleDateLayout == IF job = "legacy" THEN LayoutYYMMDD ELSE LayoutISO

\* Empty, not written in the layout, or the "0001-01-01T00:00:00" sentinel.
NoSettleDate(t) ==
  \/ t = EmptyText
  \/ t.layout # SettleDateLayout
  \/ t = TimeText(LayoutISO, ZeroTime)

\* The record qualifies for the pass of p: the backfill tests no cutoff.
Qualifies(p, i) == job = "historico" \/ AfterCutoff(p, i)

\* C11: for a record whose date parses and qualifies, each optional field is
\* parsed on its own: the row holds no settle when the term is empty or no
\* integer and a settle when it is one, no settle_date when the settlement
\* date is empty, unparseable or the sentinel and the parsed date when it is
\* none of these, whatever the other field is; and the insert of the record
\* is attempted in every one of these cases.
C11_OptionalFieldsIndependent ==
  \A p \in Runs :
    (job \in {"current", "legacy", "historico"} /\ run[p].pc # "off") =>
      /\ \A i \in Handled(p) :
           (DateParses(i) /\ Qualifies(p, i)) => i \in Attempted(p)
      /\ \A k \in 1..Len(run[p].attempts) :
           LET a == run[p].attempts[k]
               term == TermText(Batch[a.i])
               sd == SettleDateText(Batch[a.i])
           IN  /\ IF IsIntegerText(term) THEN a.row.settle # <<>>
                  ELSE a.row.settle = <<>>
               /\ IF NoSettleDate(sd) THEN a.row.settle_date = <<>>
                  ELSE a.row.settle_date = <<sd.day>>

\* C11 witness: one pass stored a record with a term that is no integer and
\* a good settlement date, and a record with the term "000" and the sentinel
\* settlement date: each row lacks exactly the field that did not parse.
C11_Witness ==
  \E p \in Runs :
    /\ job \in {"current", "historico"}
    /\ PassOver(p)
    /\ \E j, k \in 1..Len(run[p].attempts) :
         LET a == run[p].attempts[j]
             b == run[p].attempts[k]
         IN  /\ a.ok /\ b.ok
             /\ Batch[a.i].Plazo = <<"1", "x">>
             /\ Batch[a.i].FechaLiquidacion = TimeText(LayoutISO, Sentinel1900 + 2)
             /\ a.row.settle = <<>>
             /\ a.row.settle_date = <<Sentinel1900 + 2>>
             /\ Batch[b.i].Plazo = <<"0", "0", "0">>
             /\ Batch[b.i].FechaLiquidacion = TimeText(LayoutISO, ZeroTime)
             /\ b.row.settle = <<0>>
             /\ b.row.settle_date = <<>>

\* C12: in the backfill job an insert is attempted for a returned detail
\* record, of any day group, only if its date is strictly after the last
\* stored date the run read at its start; a record dated on or before that
\* date is skipped.
C12_BackfillAppliesCutoff ==
  \A p \in Runs :
    (job = "historico" /\ run[p].lastRead = "ok") =>
      \A i \in Attempted(p) : DateParses(i) => AfterCutoff(p, i)

\* The run of p read its cutoff off the table as it was before any run
\* stored a row.
ReadOriginal(p) ==
  \/ run[p].lastRead = "null"
  \/ run[p].lastRead = "ok" /\ <<run[p].lastDate>> = StoredMax

\* The runs that stored the record at batch position i.
StoredBy(i) ==
  {p \in Runs : \E k \in 1..Len(run[p].attempts) :
     run[p].attempts[k].i = i /\ run[p].attempts[k].ok}

\* C13: nothing keeps two runs of the current-snapshot job apart: a run that
\* read the cutoff before any run had stored a row attempts the insert of
\* every record dated after that cutoff and of no other, whatever the other
\* run has stored since.
C13_OverlappingRunsBothInsert ==
  \A p \in Runs :
    (job = "current" /\ ReadOriginal(p)) =>
      \A i \in Handled(p) :
        DateParses(i) =>
          (i \in Attempted(p) <=> (StoredMax = <<>> \/ Day(i) > StoredMax[1]))

\* C13 witness: both runs read the cutoff of a table that held rows, both
\* finished their pass, and one record of the endpoint is stored twice, once
\* by each run.
C13_Witness ==
  /\ job = "current"
  /\ table0 # <<>>
  /\ \A p \in Runs : PassOver(p) /\ run[p].lastRead = "ok" /\ ReadOriginal(p)
  /\ \E i \in 1..Len(Batch) :
       /\ StoredBy(i) = Runs
       /\ Cardinality({k \in 1..Len(table) :
                         table[k] = CurrentRow(Batch[i], Day(i))}) >= 2

\* The attempts of the run of p that stored a row.
Stores(p) == {a \in Range(run[p].attempts) : a.ok}

\* C14: when the current-snapshot job runs again after a run has ended and
\* its cutoff query succeeds, it reads a cutoff on or after the date of every
\* record an earlier run stored, attempts no record dated on or before such
\* a date, and so no record of the endpoint is stored by both runs; within
\* a run a record is attempted at most once.
C14_NoReinsertAcrossRuns ==
  job = "current" =>
    /\ \A p \in Runs : \A j, k \in 1..Len(run[p].attempts) :
         j # k => run[p].attempts[j].i # run[p].attempts[k].i
    /\ run["r2"].lastRead \in {"ok", "null"} =>
         /\ \A a \in Stores("r1") :
              /\ run["r2"].lastRead = "ok"
              /\ run["r2"].lastDate >= Day(a.i)
              /\ \A i \in Attempted("r2") : Day(i) > Day(a.i)
         /\ \A i \in 1..Len(Batch) : StoredBy(i) # Runs

\* C14 witness: the first run stored a record, the second run read its
\* cutoff, went through the same answer to the end, skipped that record and
\* inserted nothing.
C14_Witness ==
  /\ job = "current"
  /\ PassOver("r2")
  /\ run["r2"].lastRead = "ok"
  /\ run["r2"].inserted = 0
  /\ run["r2"].skipped >= 1
  /\ \E i \in 1..Len(Batch) : StoredBy(i) = {"r1"} /\ i \notin Attempted("r2")

\* The rows in the destination before the second run starts: those it held
\* at first and those the first run stored.
StoredBeforeSecond == Range(table0) \cup {a.row : a \in Stores("r1")}

\* The inserts of the first run that failed and whose date a row stored
\* before the second run has reached.
Overtaken ==
  {a \in Range(run["r1"].attempts) :
     ~a.ok /\ \E row \in StoredBeforeSecond : row.date >= a.row.date}

\* C15 as stated: in the sync and in the current-snapshot job, a row whose
\* insert failed is never attempted again by a later run once a row of an
\* equal or later date is stored.
C15_FailedRowNeverRetried ==
  job \in {"current", "sync"} =>
    \A a \in Overtaken : \A b \in Range(run["r2"].attempts) : b.row # a.row

\* C15, amended: the same, for every later run whose cutoff query succeeded
\* (in the sync a failed cutoff query ends the run; in the current-snapshot
\* job it leaves no cutoff and the row is attempted again).
C15_FailedRowNotRetriedAfterCutoff ==
  job \in {"current", "sync"} =>
    \A a \in Overtaken :
      /\ run["r2"].lastRead = "ok" =>
           /\ run["r2"].lastDate >= a.row.date
           /\ \A b \in Range(run["r2"].attempts) :
                b.row # a.row /\ b.row.date > a.row.date
      /\ job = "sync" => \A b \in Range(run["r2"].attempts) : b.row # a.row

\* C15 witness: in the sync a copy failed, a later row of the result set was
\* stored, and the next run read its cutoff, finished its pass and never
\* attempted the failed row, which the destination still lacks.
C15_Witness ==
  /\ job = "sync"
  /\ PassOver("r2")
  /\ run["r2"].lastRead = "ok"
  /\ \E a \in Overtaken :
       /\ \E b \in Stores("r1") : b.i > a.i
       /\ \A k \in 1..Len(table) : table[k] # a.row
       /\ \A b \in Range(run["r2"].attempts) : b.row # a.row

\* C16: in the current-snapshot and the legacy job a failed MAX(date) query
\* does not end the run: it goes on with the zero cutoff of an empty table
\* and attempts the insert of every record whose date parses, whatever the
\* table holds; in the sync a failed cutoff query ends the run with the
\* source not queried, no row read and none written.
C16_CutoffQueryFailure ==
  \A p \in Runs :
    run[p].lastRead = "err" =>
      /\ job \in {"current", "legacy"} =>
           /\ run[p].pc # "exited"
           /\ IsZero(run[p].lastDate)
           /\ run[p].skipped = 0
           /\ \A i \in Handled(p) : DateParses(i) => i \in Attempted(p)
      /\ job = "sync" =>
           /\ run[p].pc = "exited"
           /\ run[p].queries = 1
           /\ run[p].pending = <<>>
           /\ run[p].attempts = <<>>
           /\ ~run[p].prepared
           /\ table = table0

\* C16 witness: the cutoff query failed over a table that holds rows, the
\* pass ran to its end, and a record dated on or before the table's maximum
\* date was stored.
C16_Witness ==
  \E p \in Runs :
    /\ job \in {"current", "legacy"}
    /\ run[p].lastRead = "err"
    /\ PassOver(p)
    /\ table0 # <<>>
    /\ \E a \in Stores(p) : Day(a.i) <= StoredMax[1]

====
